---- MODULE Spec2Model ----
(***************************************************************************)
(* Model of src/src/index.js, class HololiveWiki (the second, current      *)
(* definition, lines 119-291): construction with option validation, and    *)
(* the request scheduler (#requestManager, #setRequest, #sendRequests)      *)
(* driven by the host's timers.  The earlier definition of the class       *)
(* (lines 8-95), which only builds the User-Agent, is modelled by its      *)
(* constructor.                                                             *)
(*                                                                          *)
(* JavaScript values are records tagged with their typeof (field t);        *)
(* strings are sequences of one-character strings so that length,           *)
(* includes() and replace() are computed, not assumed.                      *)
(***************************************************************************)
EXTENDS Integers, Sequences, FiniteSets, TLC

\* ------------------------------------------------------------------ bounds

\* Times are milliseconds.  The clock starts at StartTime (Date.now() is a
\* positive epoch time) and advances in steps of TickMs up to MaxTime.
StartTime == 1000
TickMs == 500
MaxTime == 6500
\* Request descriptors are 1..NumDescriptors; the queue holds at most MaxQueue.
NumDescriptors == 2
MaxQueue == 3

\* ------------------------------------------------------------- JS values

Undefined == [t |-> "undefined"]
Null == [t |-> "object", null |-> TRUE]
Num(n) == [t |-> "number", nan |-> FALSE, v |-> n]
NaN == [t |-> "number", nan |-> TRUE, v |-> 0]
Str(s) == [t |-> "string", s |-> s]
Arr(a) == [t |-> "object", null |-> FALSE, a |-> a]

IsNullish(x) == x = Undefined \/ x = Null
IsString(x) == x.t = "string"
IsArray(x) == x.t = "object" /\ ~x.null

\* x ?? d
Coalesce(x, d) == IF IsNullish(x) THEN d ELSE x

\* a < b and a > b on numbers: every comparison with NaN is false.
Lt(a, b) == ~a.nan /\ ~b.nan /\ a.v < b.v
Gt(a, b) == Lt(b, a)
\* a + b and a - b on numbers: NaN is absorbing.
Add(a, b) == IF a.nan \/ b.nan THEN NaN ELSE Num(a.v + b.v)
Sub(a, b) == IF a.nan \/ b.nan THEN NaN ELSE Num(a.v - b.v)
\* Truthiness of a string: only "" is falsy.
Truthy(x) == IF IsString(x) THEN Len(x.s) > 0 ELSE ~IsNullish(x)

\* ---------------------------------------------------------------- strings

UpperCase == <<"A","B","C","D","E","F","G","H","I","J","K","L","M",
               "N","O","P","Q","R","S","T","U","V","W","X","Y","Z">>
LowerCase == <<"a","b","c","d","e","f","g","h","i","j","k","l","m",
               "n","o","p","q","r","s","t","u","v","w","x","y","z">>
Digits == {"0","1","2","3","4","5","6","7","8","9"}

LowerChar(c) ==
  IF \E i \in 1..Len(UpperCase) : UpperCase[i] = c
  THEN LowerCase[CHOOSE i \in 1..Len(UpperCase) : UpperCase[i] = c]
  ELSE c

\* String.prototype.toLowerCase
ToLowerCase(s) == [i \in 1..Len(s) |-> LowerChar(s[i])]

\* String.prototype.includes
Includes(s, sub) ==
  \E i \in 0..(Len(s) - Len(sub)) : SubSeq(s, i + 1, i + Len(sub)) = sub

\* Array.prototype.join
RECURSIVE Join(_, _)
Join(a, sep) ==
  IF Len(a) = 0 THEN <<>>
  ELSE IF Len(a) = 1 THEN a[1].s
  ELSE a[1].s \o sep \o Join(Tail(a), sep)

\* s.replace(/^\((.+)\)$/, "$1"): a string wrapped in one pair of parentheses
\* around at least one character loses that pair ("." matches no line end;
\* the strings here hold none).
StripParens(s) ==
  IF Len(s) >= 3 /\ s[1] = "(" /\ s[Len(s)] = ")"
  THEN SubSeq(s, 2, Len(s) - 1)
  ELSE s

\* semver's valid(): MAJOR.MINOR.PATCH, each a run of digits without a
\* leading zero (the release core; pre-release and build tags are not used by
\* the inputs of this model).
IsNumericId(s) ==
  /\ Len(s) >= 1
  /\ \A i \in 1..Len(s) : s[i] \in Digits
  /\ (Len(s) > 1 => s[1] # "0")
semverValid(v) ==
  /\ IsString(v)
  /\ \E i, j \in 1..Len(v.s) :
       /\ i < j
       /\ v.s[i] = "." /\ v.s[j] = "."
       /\ IsNumericId(SubSeq(v.s, 1, i - 1))
       /\ IsNumericId(SubSeq(v.s, i + 1, j - 1))
       /\ IsNumericId(SubSeq(v.s, j + 1, Len(v.s)))

\* ------------------------------------------------------- package metadata

\* ../package.json: name, version, repository, author's address.
PackageName == <<"h","w">>
PackageVersion == <<"1",".","0",".","0">>
PackageRepository == <<"g","/","h","w">>
PackageAuthorMail == <<"a","@","b">>

DefaultUserAgent ==
  [name |-> Str(PackageName \o <<" ","b","o","t"," ","f","o","r"," ","N","o","d","e">>),
   version |-> Str(PackageVersion),
   contact |-> Arr(<<Str(<<"h","t","t","p","s",":","/","/">> \o PackageRepository),
                     Str(PackageAuthorMail)>>)]

\* --------------------------------------------------------- configuration

DefaultRequestTimeout == 10000
DefaultRequestInterval == 1000
MinRequestTimeout == 500
MaxRequestTimeout == 30000
MinRequestInterval == 500
MaxRequestInterval == 5000
MaxNameLength == 256
MaxContactLength == 256

\* Lines 167-173: the contact after normalisation.
NormalizeContact(c) ==
  IF c = Null THEN Str(<<>>)
  ELSE IF IsString(c) THEN Str(StripParens(c.s))
  ELSE IF IsArray(c) /\ \A i \in 1..Len(c.a) : IsString(c.a[i])
       THEN Str(Join(c.a, <<";"," ">>))
  ELSE c

\* Lines 138-173: the fields the constructor assigns before validating.
AssignedFields(opts) ==
  [requestTimeout |-> Coalesce(opts.requestTimeout, Num(DefaultRequestTimeout)),
   requestInterval |-> Coalesce(opts.requestInterval, Num(DefaultRequestInterval)),
   name |-> opts.userAgent.name,
   version |-> opts.userAgent.version,
   contact |-> NormalizeContact(opts.userAgent.contact),
   userAgent |-> Undefined,
   headers |-> Undefined,
   frozen |-> FALSE]

NoError == [kind |-> "none", field |-> "none"]
TypeError(f) == [kind |-> "TypeError", field |-> f]
RangeError(f) == [kind |-> "RangeError", field |-> f]

\* #validateOptions: the first check that fails decides the error thrown.
validateOptions(c) ==
  IF c.requestTimeout.t # "number" THEN TypeError("requestTimeout")
  ELSE IF Lt(c.requestTimeout, Num(MinRequestTimeout)) THEN RangeError("requestTimeout")
  ELSE IF Gt(c.requestTimeout, Num(MaxRequestTimeout)) THEN RangeError("requestTimeout")
  ELSE IF c.requestInterval.t # "number" THEN TypeError("requestInterval")
  ELSE IF Lt(c.requestInterval, Num(MinRequestInterval)) THEN RangeError("requestInterval")
  ELSE IF Gt(c.requestInterval, Num(MaxRequestInterval)) THEN RangeError("requestInterval")
  ELSE IF ~IsString(c.name) THEN TypeError("name")
  ELSE IF Len(c.name.s) > MaxNameLength THEN RangeError("name")
  ELSE IF ~Includes(ToLowerCase(c.name.s), <<"b","o","t">>) THEN RangeError("name")
  ELSE IF ~IsString(c.version) THEN TypeError("version")
  ELSE IF ~semverValid(c.version) THEN RangeError("version")
  ELSE IF ~IsString(c.contact) THEN TypeError("contact")
  ELSE IF Len(c.contact.s) > MaxContactLength THEN RangeError("contact")
  ELSE NoError

\* #generateHeaders: the User-Agent string and the header set.
UserAgentString(c) ==
  c.name.s \o <<"/">> \o c.version.s \o <<" ">>
    \o (IF Truthy(c.contact) THEN <<"(">> \o c.contact.s \o <<")"," ">> ELSE <<>>)
    \o PackageName \o <<"/">> \o PackageVersion
generateHeaders(c) ==
  [c EXCEPT !.userAgent = Str(UserAgentString(c)),
            !.headers = [UserAgent |-> Str(UserAgentString(c)),
                         AcceptEncoding |-> "gzip",
                         Connection |-> "keep-alive"]]

\* ----------------------------------------------------------- host timers

\* setTimeout's return value, which is also the receiver (this) with which
\* the host later invokes the callback: the timer's own Timeout object.
TimeoutObject(id) == [t |-> "object", null |-> FALSE, class |-> "Timeout", id |-> id]

\* setTimeout coerces its delay: NaN or anything below 1 becomes 1.
TimerDelay(d) == IF d.nan \/ d.v < 1 THEN 1 ELSE d.v

\* A private name (#requestManager, #setRequest, #sendRequests) can be read
\* only from an object constructed by the class; from any other receiver the
\* access throws a TypeError.
HasPrivateNames(recv) == recv.class = "HololiveWiki"

\* date-fns isBefore(date, dateToCompare): strictly earlier.
isBefore(date, dateToCompare) == Lt(date, dateToCompare)

\* ------------------------------------------------------------------ state

VARIABLES
  phase,           \* "new", "constructed" or "threw": the outcome of new HololiveWiki(opts);
                   \* "draftConstructed" or "draftThrew": that of the earlier class
  options,         \* history: the options the constructor was called with
  thrown,          \* the error the constructor threw (NoError if none)
  client,          \* the instance's public fields
  requestManager,  \* #requestManager: queue, nextReq, timeout
  timers,          \* the host's pending timers
  nextTimerId,     \* the id of the next timer the host creates
  calls,           \* the transport calls issued by fetch, in order
  now,             \* Date.now()
  fired,           \* history: one record per firing of a dispatch timer
  uncaught,        \* history: the errors thrown out of timer callbacks
  process          \* "running" or "exited"

vars == <<phase, options, thrown, client, requestManager, timers, nextTimerId,
          calls, now, fired, uncaught, process>>

\* Lines 188-192.
InitialRequestManager == [queue |-> <<>>, nextReq |-> Num(0), timeout |-> Null]

Init ==
  /\ phase = "new"
  /\ options = Undefined
  /\ thrown = NoError
  /\ client = Undefined
  /\ requestManager = InitialRequestManager
  /\ timers = {}
  /\ nextTimerId = 1
  /\ calls = <<>>
  /\ now = StartTime
  /\ fired = <<>>
  /\ uncaught = <<>>
  /\ process = "running"

\* ----------------------------------------------------------- construction

\* The options a caller may pass: absent, null, of the wrong type, on and
\* around each boundary, and NaN.
RequestTimeoutInputs ==
  {Undefined, Null, Str(<<"5","0","0">>), NaN,
   Num(MinRequestTimeout - 1), Num(MinRequestTimeout),
   Num(MaxRequestTimeout), Num(MaxRequestTimeout + 1)}
RequestIntervalInputs ==
  {Undefined, Str(<<"5","0","0">>), NaN,
   Num(MinRequestInterval - 1), Num(MinRequestInterval),
   Num(MaxRequestInterval), Num(MaxRequestInterval + 1)}
UserAgentInputs ==
  {Undefined,
   [name |-> Str(<<"B","o","t">>), version |-> Str(<<"1",".","2",".","3">>),
    contact |-> Null],
   [name |-> Str(<<"a","p","p">>), version |-> Str(<<"1",".","2",".","3">>),
    contact |-> Null],
   [name |-> Num(1), version |-> Str(<<"1",".","2",".","3">>),
    contact |-> Null]}

\* The character c, n times.
Rep(c, n) == [i \in 1..n |-> c]

\* Contacts on and around the length limit, bare, wrapped in parentheses
\* and as arrays joined by "; ", and one of the wrong type.
ContactInputs ==
  {Str(Rep("a", MaxContactLength)),
   Str(Rep("a", MaxContactLength + 1)),
   Str(<<"(">> \o Rep("a", MaxContactLength) \o <<")">>),
   Str(<<"(">> \o Rep("a", MaxContactLength + 1) \o <<")">>),
   Arr(<<Str(Rep("a", MaxContactLength - 2)), Str(<<>>)>>),
   Arr(<<Str(Rep("a", MaxContactLength - 2)), Str(<<"b">>)>>),
   Num(5)}
ContactUserAgents ==
  {[name |-> Str(<<"B","o","t">>), version |-> Str(<<"1",".","2",".","3">>),
    contact |-> c] : c \in ContactInputs}

Options(rt, ri, ua) == [requestTimeout |-> rt, requestInterval |-> ri, userAgent |-> ua]

\* The options the constructor is called with: every combination of the
\* numeric inputs with the short userAgents, and the contacts around the
\* limit with the numeric options absent.
OptionInputs ==
  {Options(rt, ri, ua) : rt \in RequestTimeoutInputs, ri \in RequestIntervalInputs,
                         ua \in UserAgentInputs}
    \cup {Options(Undefined, Undefined, ua) : ua \in ContactUserAgents}

\* Lines 123-131: destructuring; an absent userAgent takes the default.
Destructure(opts) ==
  [opts EXCEPT !.userAgent = IF @ = Undefined THEN DefaultUserAgent ELSE @]

\* Lines 123-178: the constructor.  #validateOptions throws before
\* #generateHeaders and Object.freeze run.
ConstructWith(opts) ==
  LET c == AssignedFields(Destructure(opts))
      e == validateOptions(c)
  IN /\ phase = "new"
     /\ options' = opts
     /\ thrown' = e
     /\ IF e = NoError
        THEN /\ phase' = "constructed"
             /\ client' = [generateHeaders(c) EXCEPT !.frozen = TRUE]
        ELSE /\ phase' = "threw"
             /\ client' = c
     /\ UNCHANGED <<requestManager, timers, nextTimerId, calls, now, fired,
                    uncaught, process>>

Construct == \E opts \in OptionInputs : ConstructWith(opts)

\* ------------------------------------------- the earlier class (lines 8-95)

DraftMaxLength == 256

\* Lines 12-16: the default options of the earlier constructor.
DraftDefaultOptions ==
  [name |-> Str(PackageName \o <<" ","b","o","t"," ","f","o","r"," ","N","o","d","e">>),
   version |-> Str(PackageVersion),
   contact |-> Str(PackageAuthorMail)]

\* Lines 17-39: null becomes "", then the same normalisation of the contact.
DraftFields(opts) ==
  LET contact == IF opts.contact = Null THEN Str(<<>>) ELSE opts.contact
  IN [name |-> opts.name,
      version |-> opts.version,
      contact |-> IF IsString(contact) THEN Str(StripParens(contact.s))
                  ELSE IF IsArray(contact) /\ \A i \in 1..Len(contact.a) : IsString(contact.a[i])
                       THEN Str(Join(contact.a, <<";"," ">>))
                  ELSE contact,
      userAgent |-> Undefined]

\* #generateUserAgent, lines 74-87: the checks.  The last one (line 86)
\* throws the contact's RangeError on the length of the name.
generateUserAgent(c) ==
  IF ~IsString(c.name) THEN TypeError("name")
  ELSE IF Len(c.name.s) > DraftMaxLength THEN RangeError("name")
  ELSE IF ~Includes(ToLowerCase(c.name.s), <<"b","o","t">>) THEN RangeError("name")
  ELSE IF ~IsString(c.version) THEN TypeError("version")
  ELSE IF ~semverValid(c.version) THEN RangeError("version")
  ELSE IF ~IsString(c.contact) THEN TypeError("contact")
  ELSE IF Len(c.name.s) > DraftMaxLength THEN RangeError("contact")
  ELSE NoError

\* Lines 12-41 and 88-93: the earlier constructor.
ConstructDraftWith(opts) ==
  LET c == DraftFields(IF opts = Undefined THEN DraftDefaultOptions ELSE opts)
      e == generateUserAgent(c)
  IN /\ phase = "new"
     /\ options' = opts
     /\ thrown' = e
     /\ IF e = NoError
        THEN /\ phase' = "draftConstructed"
             /\ client' = [c EXCEPT !.userAgent = Str(UserAgentString(c))]
        ELSE /\ phase' = "draftThrew"
             /\ client' = c
     /\ UNCHANGED <<requestManager, timers, nextTimerId, calls, now, fired,
                    uncaught, process>>

ConstructDraft ==
  \E opts \in UserAgentInputs \cup ContactUserAgents : ConstructDraftWith(opts)

\* -------------------------------------------------------------- scheduler

\* The delay with the comparison turned round: a full interval also when
\* nextReq is exactly now.
ArmingDelay_NonStrict(rm, c, t) ==
  IF ~Gt(rm.nextReq, Num(t)) THEN c.requestInterval ELSE Sub(rm.nextReq, Num(t))

\* Lines 204-206: the delay passed to setTimeout.
ArmingDelay(rm, c, t) ==
  IF isBefore(rm.nextReq, Num(t)) THEN c.requestInterval ELSE Sub(rm.nextReq, Num(t))

\* The arming without its guard: every submit arms a timer.
MayArm_NoGuard(rm) == TRUE

\* Line 201: the guard of the arming.
MayArm(rm) == ~Truthy(rm.timeout)

\* The push at the wrong end, the push forgotten, and a push that also
\* moves the watermark.
Pushed_Unshift(rm, data) == [rm EXCEPT !.queue = <<data>> \o @]
Pushed_Forgotten(rm, data) == rm
Pushed_MovesNextReq(rm, data) ==
  [rm EXCEPT !.queue = Append(@, data), !.nextReq = Add(Num(now), client.requestInterval)]

\* Line 200: queue.push(data).
Pushed(rm, data) == [rm EXCEPT !.queue = Append(@, data)]

\* #setRequest that keeps the delay it computed in this.requestInterval.
setRequest_WritesInterval(data) ==
  LET pushed == Pushed(requestManager, data)
  IN /\ phase = "constructed"
     /\ process = "running"
     /\ Len(requestManager.queue) < MaxQueue
     /\ requestManager' = pushed
     /\ client' = [client EXCEPT !.requestInterval = Num(TimerDelay(ArmingDelay(pushed, client, now)))]
     /\ UNCHANGED <<phase, options, thrown, timers, nextTimerId, calls, now, fired,
                    uncaught, process>>

\* #setRequest(data), lines 199-208.  The method is private and the file
\* holds no call of it; it is run here as the class's submit operation, on
\* the instance, at any time after construction.
setRequest(data) ==
  LET pushed == Pushed(requestManager, data)
  IN /\ phase = "constructed"
     /\ process = "running"
     /\ Len(requestManager.queue) < MaxQueue
     /\ IF MayArm(pushed)
        THEN /\ requestManager' = [pushed EXCEPT !.timeout = TimeoutObject(nextTimerId)]
             /\ timers' = timers \cup
                  {[id |-> nextTimerId, callback |-> "sendRequests",
                    delay |-> ArmingDelay(pushed, client, now),
                    due |-> now + TimerDelay(ArmingDelay(pushed, client, now))]}
             /\ nextTimerId' = nextTimerId + 1
        ELSE /\ requestManager' = pushed
             /\ UNCHANGED <<timers, nextTimerId>>
     /\ UNCHANGED <<phase, options, thrown, client, calls, now, fired, uncaught,
                    process>>

SetRequest == \E data \in 1..NumDescriptors : setRequest(data)

\* An error thrown out of a timer callback is uncaught: the process exits,
\* unless the embedding program handles 'uncaughtException', and then it
\* goes on.
Uncaught(error) ==
  /\ uncaught' = Append(uncaught, error)
  /\ process' \in {"running", "exited"}

\* #sendRequests, lines 214-235, run with receiver recv while the host's
\* other pending timers are rest.  Line 215 reads this.#requestManager first:
\* on a receiver without the class's private names it throws a TypeError and
\* nothing else of the body runs.  Otherwise the body sets nextReq, arms the
\* cancellation timer and issues one fetch with the fixed query of lines
\* 218-221 (the queue is not read) and the instance's headers.
sendRequests(recv, rest) ==
  IF ~HasPrivateNames(recv)
  THEN /\ Uncaught("TypeError")
       /\ timers' = rest
       /\ UNCHANGED <<requestManager, nextTimerId, calls>>
  ELSE /\ requestManager' =
            [requestManager EXCEPT !.nextReq = Add(Num(now), client.requestInterval)]
       /\ timers' = rest \cup
            {[id |-> nextTimerId, callback |-> "controller.abort",
              delay |-> client.requestTimeout,
              due |-> now + TimerDelay(client.requestTimeout)]}
       /\ nextTimerId' = nextTimerId + 1
       /\ calls' = Append(calls,
            [start |-> now, params |-> <<"action=query", "format=json">>,
             carried |-> <<>>, headers |-> client.headers,
             cancelTimer |-> nextTimerId, state |-> "pending"])
       /\ UNCHANGED <<uncaught, process>>

\* The receiver of a timer callback.  Lines 202-203 pass this.#sendRequests
\* itself, not a bound function or an arrow function, so the host calls it
\* with its own receiver: the timer's Timeout object.
CallbackReceiver(timer) == TimeoutObject(timer.id)

\* The host fires a due dispatch timer (timers may fire late, never early).
DispatchTimerFires ==
  \E timer \in timers :
    /\ process = "running"
    /\ timer.callback = "sendRequests"
    /\ timer.due <= now
    /\ fired' = Append(fired, [at |-> now, queue |-> requestManager.queue,
                               callsBefore |-> Len(calls)])
    /\ sendRequests(CallbackReceiver(timer), timers \ {timer})
    /\ UNCHANGED <<phase, options, thrown, client, now>>

\* Time passes.
Tick ==
  /\ process = "running"
  /\ now + TickMs <= MaxTime
  /\ now' = now + TickMs
  /\ UNCHANGED <<phase, options, thrown, client, requestManager, timers,
                 nextTimerId, calls, fired, uncaught, process>>

Next == Construct \/ ConstructDraft \/ SetRequest \/ DispatchTimerFires \/ Tick

Spec == Init /\ [][Next]_vars

\* ------------------------------------- the arming delay as a function

\* The delay of lines 204-206 is a function of nextReq, Date.now() and
\* requestInterval.  This specification starts a constructed client with
\* nextReq drawn from times before, at and after the clock's values, and
\* runs the scheduler from there.
NextReqInputs == {0, StartTime, StartTime + TickMs, StartTime + 3 * TickMs}

DelayInit ==
  /\ phase = "constructed"
  /\ options \in {o \in {Options(Undefined, ri, Undefined) : ri \in RequestIntervalInputs} :
                     validateOptions(AssignedFields(Destructure(o))) = NoError}
  /\ thrown = NoError
  /\ client = [generateHeaders(AssignedFields(Destructure(options))) EXCEPT !.frozen = TRUE]
  /\ requestManager \in {[InitialRequestManager EXCEPT !.nextReq = Num(n)] :
                            n \in NextReqInputs}
  /\ timers = {}
  /\ nextTimerId = 1
  /\ calls = <<>>
  /\ now = StartTime
  /\ fired = <<>>
  /\ uncaught = <<>>
  /\ process = "running"

DelayNext == SetRequest \/ DispatchTimerFires \/ Tick

DelaySpec == DelayInit /\ [][DelayNext]_vars

\* ================================================================== claims

DispatchTimers == {timer \in timers : timer.callback = "sendRequests"}
PendingCalls == {i \in 1..Len(calls) : calls[i].state = "pending"}
Range(q) == {q[i] : i \in 1..Len(q)}

\* C1 (single-flight): in every reachable state at most one pending-dispatch
\* timer is armed, whatever submits, timer firings and clock steps came before.
C1_SingleFlight == Cardinality(DispatchTimers) <= 1

\* A dispatch timer is armed and a second submit arrived while it was armed.
C1_Witness ==
  /\ Cardinality(DispatchTimers) = 1
  /\ Len(requestManager.queue) >= 2

\* C2 (minimum spacing), for reference: consecutive firings of the dispatch
\* timer are at least requestInterval apart.  No reachable state holds two
\* firings (C2_AtMostOneFiring), so the statement has no case to be checked on.
C2_AtMostOneFiring == Len(fired) <= 1

\* C3 (coalescing): the requests submitted while a dispatch timer is armed
\* leave exactly one timer armed, and its firing issues exactly one transport
\* call, which carries every request that was pending when it fired.
C3_Coalescing ==
  /\ Cardinality(DispatchTimers) <= 1
  /\ \A i \in 1..Len(fired) :
       /\ Len(calls) >= fired[i].callsBefore + 1
       /\ (i < Len(fired) => fired[i + 1].callsBefore = fired[i].callsBefore + 1)
       /\ (i = Len(fired) => Len(calls) = fired[i].callsBefore + 1)
       /\ Range(fired[i].queue) \subseteq Range(calls[fired[i].callsBefore + 1].carried)

\* C4 (no wedge): whenever the scheduler is idle (no dispatch timer pending
\* and no transport call in flight) the dispatch-timer handle is released, so
\* that the next submit arms a new timer.
C4_IdleReleasesHandle ==
  (phase = "constructed" /\ DispatchTimers = {} /\ PendingCalls = {})
    => ~Truthy(requestManager.timeout)

\* C5: a submit made after the first dispatch has started (its timer has
\* fired, none is pending) arms exactly one new dispatch timer.
C5_SubmitAfterDispatchArms ==
  [][(/\ Len(fired) >= 1
      /\ DispatchTimers = {}
      /\ Len(requestManager'.queue) = Len(requestManager.queue) + 1)
     => (/\ Cardinality(DispatchTimers') = 1
         /\ \A timer \in DispatchTimers' : timer.id = nextTimerId)]_vars

\* C6 (liveness): every submitted request is eventually carried by a
\* dispatch.  Progress comes only from a pending dispatch timer or from a
\* call in flight, so the claim needs every queued request that no call has
\* carried to have one of them ahead of it; a state without is one from which
\* the request is never sent unless somebody submits again.
C6_QueuedRequestHasDispatchAhead ==
  (phase = "constructed" /\ process = "running") =>
    \A k \in 1..Len(requestManager.queue) :
      \/ \E i \in 1..Len(calls) : requestManager.queue[k] \in Range(calls[i].carried)
      \/ DispatchTimers # {}
      \/ PendingCalls # {}

\* C9 (a flush clears pending): the firing of a dispatch timer leaves in the
\* queue none of the requests that were pending when it fired.
C9_FlushClearsPending ==
  [][Len(fired') = Len(fired) + 1
     => Range(requestManager'.queue) \cap Range(requestManager.queue) = {}]_vars

\* C10 (configuration bounds): a constructed client has 500 <= requestTimeout
\* <= 30000 and 500 <= requestInterval <= 5000; a number outside its range
\* makes the constructor throw a RangeError; absent options take the defaults
\* 10000 and 1000; in-range numbers (boundaries included) with a valid
\* userAgent construct.
InRange(x, lo, hi) == x.t = "number" /\ ~x.nan /\ lo <= x.v /\ x.v <= hi
OutOfRange(x, lo, hi) == x.t = "number" /\ ~InRange(x, lo, hi)
AcceptedOption(x, lo, hi) == IsNullish(x) \/ InRange(x, lo, hi)
ValidUserAgent(ua) ==
  validateOptions(AssignedFields(Destructure(Options(Undefined, Undefined, ua)))) = NoError
C10_ConfigBounds ==
  /\ phase = "constructed" =>
       /\ InRange(client.requestTimeout, MinRequestTimeout, MaxRequestTimeout)
       /\ InRange(client.requestInterval, MinRequestInterval, MaxRequestInterval)
       /\ (options.requestTimeout = Undefined =>
             client.requestTimeout = Num(DefaultRequestTimeout))
       /\ (options.requestInterval = Undefined =>
             client.requestInterval = Num(DefaultRequestInterval))
  /\ phase \in {"constructed", "threw"} =>
       /\ (\/ OutOfRange(options.requestTimeout, MinRequestTimeout, MaxRequestTimeout)
           \/ /\ AcceptedOption(options.requestTimeout, MinRequestTimeout, MaxRequestTimeout)
              /\ OutOfRange(options.requestInterval, MinRequestInterval, MaxRequestInterval))
          => (phase = "threw" /\ thrown.kind = "RangeError")
       /\ (/\ AcceptedOption(options.requestTimeout, MinRequestTimeout, MaxRequestTimeout)
           /\ AcceptedOption(options.requestInterval, MinRequestInterval, MaxRequestInterval)
           /\ ValidUserAgent(options.userAgent))
          => phase = "constructed"

\* C11 (all-or-nothing construction): if any option is invalid (a number
\* outside its range, a value of the wrong type, a name without "bot" or over
\* 256 characters, a version that is no semver, a contact over 256
\* characters) the constructor throws before the User-Agent string and the
\* header set are produced, and a client that exists is valid in every option.
ValidOptions(opts) ==
  /\ AcceptedOption(opts.requestTimeout, MinRequestTimeout, MaxRequestTimeout)
  /\ AcceptedOption(opts.requestInterval, MinRequestInterval, MaxRequestInterval)
  /\ ValidUserAgent(opts.userAgent)
C11_AllOrNothing ==
  phase \in {"constructed", "threw"} =>
    /\ ~ValidOptions(options) =>
         /\ phase = "threw"
         /\ thrown # NoError
         /\ client.userAgent = Undefined
         /\ client.headers = Undefined
    /\ phase = "constructed" => ValidOptions(options)

\* C11, for reference: whenever the constructor throws, it has produced
\* neither the User-Agent string nor the header set.
C11_ThrowPrecedesHeaders ==
  phase = "threw" =>
    thrown # NoError /\ client.userAgent = Undefined /\ client.headers = Undefined

\* C13 (contact length): for a valid name and version (and, in the current
\* class, accepted numeric options), a contact whose normalised form is a
\* string of more than 256 characters makes the constructor throw the
\* contact's RangeError, and one of at most 256 characters is accepted.  The
\* statement covers both definitions of the class.
ValidNameAndVersion(ua) ==
  /\ IsString(ua.name)
  /\ Len(ua.name.s) <= MaxNameLength
  /\ Includes(ToLowerCase(ua.name.s), <<"b","o","t">>)
  /\ semverValid(ua.version)
ContactRule(ua, constructed, threw) ==
  LET contact == NormalizeContact(ua.contact)
  IN (ValidNameAndVersion(ua) /\ IsString(contact)) =>
       /\ Len(contact.s) > MaxContactLength =>
            phase = threw /\ thrown = RangeError("contact")
       /\ Len(contact.s) <= MaxContactLength => phase = constructed
C13_CurrentClass ==
  (/\ phase \in {"constructed", "threw"}
   /\ AcceptedOption(options.requestTimeout, MinRequestTimeout, MaxRequestTimeout)
   /\ AcceptedOption(options.requestInterval, MinRequestInterval, MaxRequestInterval))
    => ContactRule(Destructure(options).userAgent, "constructed", "threw")
C13_ContactLength ==
  /\ C13_CurrentClass
  /\ phase \in {"draftConstructed", "draftThrew"} =>
       ContactRule(IF options = Undefined THEN DraftDefaultOptions ELSE options,
                   "draftConstructed", "draftThrew")

\* C12 (config immutability): once the client is constructed, no step
\* (submit, timer firing, clock) changes requestTimeout, requestInterval, the
\* User-Agent string or the header set.
C12_ConfigImmutable ==
  [][phase = "constructed" =>
       /\ client'.requestTimeout = client.requestTimeout
       /\ client'.requestInterval = client.requestInterval
       /\ client'.userAgent = client.userAgent
       /\ client'.headers = client.headers]_vars

\* A constructed client after a submit, a firing of its dispatch timer and a
\* later submit.
C12_Witness ==
  /\ phase = "constructed"
  /\ Len(fired) = 1
  /\ Len(requestManager.queue) > Len(fired[1].queue)

NewDispatchTimers == DispatchTimers' \ DispatchTimers

C15_TimerFiringStep ==
  [][Len(fired') = Len(fired) + 1 =>
       /\ requestManager'.nextReq = Add(Num(now), client.requestInterval)
       /\ \E timer \in timers' \ timers :
            /\ timer.callback = "controller.abort"
            /\ timer.delay = client.requestTimeout
            /\ timers' \ timers = {timer}
       /\ Len(calls') = Len(calls) + 1]_vars

\* C16: a submit made while a dispatch timer is armed or a call is in flight
\* appends its descriptor at the tail of the queue and changes nothing else:
\* the handle, nextReq and the host's timers stay as they are.
C16_SubmitWhileArmedOnlyAppends ==
  [][(/\ requestManager'.queue # requestManager.queue
      /\ (DispatchTimers # {} \/ PendingCalls # {}))
     => /\ \E data \in 1..NumDescriptors :
             requestManager'.queue = Append(requestManager.queue, data)
        /\ requestManager'.timeout = requestManager.timeout
        /\ requestManager'.nextReq = requestManager.nextReq
        /\ timers' = timers]_vars

\* A timer is armed and a different descriptor was submitted after the one
\* that armed it.
C16_Witness ==
  /\ DispatchTimers # {}
  /\ Len(requestManager.queue) >= 2
  /\ requestManager.queue[2] # requestManager.queue[1]

\* C17: whenever a dispatch timer is armed the queue holds at least one
\* descriptor.
C17_ArmedHasPending == DispatchTimers # {} => Len(requestManager.queue) >= 1

\* A timer armed by the first submit, its descriptor alone in the queue.
C17_Witness ==
  /\ DispatchTimers # {}
  /\ Len(requestManager.queue) = 1

\* C18 (one call in flight), for reference: at most one transport call and
\* one cancellation timer exist at a time.  No reachable state holds a call
\* or a cancellation timer at all (C18_NoCallEver).
C18_NoCallEver ==
  /\ calls = <<>>
  /\ \A timer \in timers : timer.callback = "sendRequests"

\* C19 (the watermark never decreases): no step lowers nextReq, and a submit
\* leaves it as it is.
C19_NextReqMonotone ==
  [][/\ ~Lt(requestManager'.nextReq, requestManager.nextReq)
     /\ (requestManager'.queue # requestManager.queue
           => requestManager'.nextReq = requestManager.nextReq)]_vars

\* Submits before and after a firing of the dispatch timer have happened.
C19_Witness ==
  /\ Len(fired) >= 1
  /\ Len(fired[1].queue) >= 2
  /\ Len(requestManager.queue) > Len(fired[1].queue)

====
